---- MODULE Spec2Model ----
(***************************************************************************)
(* Model of get_birthday.py: the fetch / retry / checkpoint orchestrator   *)
(* run_scraping_cycle, its worker _process_chunk_age and the retry loop    *)
(* get_age_with_retry.                                                     *)
(*                                                                         *)
(* A data frame is a sequence of rows.  A row carries its index label      *)
(* (idx), the identity of the athlete it describes (uid, the leading       *)
(* columns of the file), the ath_id column, the reference column at        *)
(* position 2 (val), the date columns from position 3 on that are not      *)
(* today's (hist) and today's column (today).                              *)
(***************************************************************************)
EXTENDS Integers, Sequences, FiniteSets, TLC

VARIABLES
    disk,           \* the csv file of the federation
    disk0,          \* the csv file as it was when the run started
    n_workers,      \* argument of run_scraping_cycle
    pc,             \* position of run_scraping_cycle
    error,          \* exception that left run_scraping_cycle, or "none"
    ath_age,        \* the data frame in memory
    cycle,          \* loop variable of the re-do loop
    idx_list,       \* backlog of the current cycle (index labels)
    chunks,         \* chunks submitted in the current cycle
    wstatus,        \* per chunk: state of its future / worker
    wresults,       \* per chunk: the worker's results list
    collected,      \* chunks whose future as_completed has yielded
    cycle_results,  \* outcomes gathered by the orchestrator
    dispatched,     \* number of cycles that submitted work
    saves,          \* number of to_csv calls
    deletedSeen,    \* [uid, cycle] of the "DELETED" outcomes the orchestrator received
    fetches,        \* per observed uid: driver.get calls made for it in this run
    tries,          \* get_age_with_retry: what each try of the driver yields
    max_tries,      \* get_age_with_retry: argument
    age             \* get_age_with_retry: what the call did and returned

vars == <<disk, disk0, n_workers, pc, error, ath_age, cycle, idx_list, chunks,
          wstatus, wresults, collected, cycle_results, dispatched, saves,
          deletedSeen, fetches, tries, max_tries, age>>

(***************************************************************************)
(* Bounds of the model                                                     *)
(***************************************************************************)
MaxRows == 3
MaxWorkers == 2
HistLen == 2
MaxBacklog == 7
MaxChunkWorkers == 4
MaxTries == 3
BacklogRows == 2

(***************************************************************************)
(* Values                                                                  *)
(***************************************************************************)
NaN == -1
DELETED == -2

isna(x) == x = NaN

MinAge == 3
MaxAge == 200
LastCycle_More == 5 + 1
LastCycle == 5
DefaultMaxTries == 3

(***************************************************************************)
(* extract / retry loop                                                    *)
(***************************************************************************)
\* What one try can meet: driver.get raises; the error toast is present; the
\* page is read and the extraction raises; the page is read and extract_first
\* returns v (NaN when the pattern does not match).
GetError == [k |-> "get_error", v |-> NaN]
Toast == [k |-> "toast", v |-> NaN]
ExtractError == [k |-> "extract_error", v |-> NaN]
Page(v) == [k |-> "page", v |-> v]

ExtractVals == {NaN, 2, 3, 41, 200, 201}
TryResults == {GetError, Toast, ExtractError} \cup {Page(v) : v \in ExtractVals}

ValidAge_NoUpper(a) == ~isna(a) /\ MinAge <= a
ValidAge(a) == ~isna(a) /\ MinAge <= a /\ a <= MaxAge

\* One iteration of the retry loop: what the try does with what it meets.
\* done: the function returns from this try; extracted: extract_first was
\* called; raised: an exception left the function.
Try_Propagate(t) ==
    IF t.k \in {"get_error", "extract_error"}
    THEN [done |-> TRUE, ret |-> NaN, extracted |-> t.k = "extract_error", raised |-> TRUE]
    ELSE IF t.k = "toast"
    THEN [done |-> TRUE, ret |-> DELETED, extracted |-> FALSE, raised |-> FALSE]
    ELSE IF ValidAge(t.v)
    THEN [done |-> TRUE, ret |-> t.v, extracted |-> TRUE, raised |-> FALSE]
    ELSE [done |-> FALSE, ret |-> NaN, extracted |-> TRUE, raised |-> FALSE]
Try_ExtractFirst(t) ==
    IF t.k = "get_error"
    THEN [done |-> FALSE, ret |-> NaN, extracted |-> FALSE, raised |-> FALSE]
    ELSE IF t.k = "toast"
    THEN [done |-> TRUE, ret |-> DELETED, extracted |-> TRUE, raised |-> FALSE]
    ELSE IF t.k = "page" /\ ValidAge(t.v)
    THEN [done |-> TRUE, ret |-> t.v, extracted |-> TRUE, raised |-> FALSE]
    ELSE [done |-> FALSE, ret |-> NaN, extracted |-> TRUE, raised |-> FALSE]
Try(t) ==
    IF t.k = "get_error"
    THEN [done |-> FALSE, ret |-> NaN, extracted |-> FALSE, raised |-> FALSE]
    ELSE IF t.k = "toast"
    THEN [done |-> TRUE, ret |-> DELETED, extracted |-> FALSE, raised |-> FALSE]
    ELSE IF t.k = "page" /\ ValidAge(t.v)
    THEN [done |-> TRUE, ret |-> t.v, extracted |-> TRUE, raised |-> FALSE]
    ELSE [done |-> FALSE, ret |-> NaN, extracted |-> TRUE, raised |-> FALSE]

\* range(1, max_tries + 1)
Attempts_Short(mt) == 1..(mt - 1)
Attempts(mt) == 1..mt

RECURSIVE RetryLoop(_, _, _, _)
RetryLoop(tr, mt, attempt, log) ==
    IF attempt \notin Attempts(mt)
    THEN [ret |-> NaN, fetched |-> log.fetched, extracted |-> log.extracted,
          raised |-> FALSE]
    ELSE LET r == Try(tr[attempt])
             f == log.fetched \cup {attempt}
             e == IF r.extracted THEN log.extracted \cup {attempt} ELSE log.extracted
         IN  IF r.done
             THEN [ret |-> r.ret, fetched |-> f, extracted |-> e, raised |-> r.raised]
             ELSE RetryLoop(tr, mt, attempt + 1, [fetched |-> f, extracted |-> e])

get_age_with_retry(tr, mt) ==
    RetryLoop(tr, mt, 1, [fetched |-> {}, extracted |-> {}])

\* What a worker can get from a call with the default max_tries: the value
\* returned and the number of driver.get calls made.
AgeCalls ==
    {LET r == get_age_with_retry(tr, DefaultMaxTries)
     IN  [ret |-> r.ret, n |-> Cardinality(r.fetched)] :
        tr \in [1..DefaultMaxTries ->
                  {GetError, Toast, Page(NaN), Page(2), Page(41), Page(201)}]}

AgeOutcomes == {c.ret : c \in AgeCalls}

\* The body of the worker's loop for a record whose ath_id is ath_id_val.
ItemCalls_NoGuard(ath_id_val) == AgeCalls
ItemCalls(ath_id_val) ==
    IF isna(ath_id_val) THEN {[ret |-> NaN, n |-> 0]} ELSE AgeCalls

(***************************************************************************)
(* Frame helpers                                                           *)
(***************************************************************************)
Max2(a, b) == IF a >= b THEN a ELSE b
Min2(a, b) == IF a <= b THEN a ELSE b

RECURSIVE MaxSkipNa(_)
MaxSkipNa(s) ==
    IF s = <<>> THEN NaN
    ELSE LET r == MaxSkipNa(Tail(s))
         IN  IF isna(Head(s)) THEN r
             ELSE IF isna(r) THEN Head(s) ELSE Max2(Head(s), r)

\* Series.eq: a comparison with NaN on either side is False.
eq(a, b) == ~isna(a) /\ ~isna(b) /\ a = b

\* ath_age.iloc[:, 3:].max(axis=1, skipna=True)
rowmax_FromVal(row) == MaxSkipNa(<<row.val>> \o row.hist \o <<row.today>>)
rowmax(row) == MaxSkipNa(row.hist \o <<row.today>>)

InBacklog_NoToday(row) == ~eq(row.val, rowmax(row))
InBacklog(row) == ~eq(row.val, rowmax(row)) /\ isna(row.today)

Backlog(frame) ==
    LET sel == SelectSeq(frame, InBacklog)
    IN  [i \in 1..Len(sel) |-> sel[i].idx]

Ceil(a, b) == (a + b - 1) \div b

ChunkSize_Floor(n, w) == Max2(1, n \div Max2(1, w))
ChunkSize(n, w) == Ceil(n, Max2(1, w))

\* idx_list[k : k + size] with k counted from 0
Slice_Short(s, k, size) == SubSeq(s, k + 1, Min2(Len(s), k + size - 1))
Slice(s, k, size) == SubSeq(s, k + 1, Min2(Len(s), k + size))

Chunks(il, w) ==
    LET size == ChunkSize(Len(il), w)
        n == Ceil(Len(il), size)
    IN  [c \in 1..n |-> Slice(il, (c - 1) * size, size)]

\* read_csv gives the rows a RangeIndex; the today column is created when the
\* file has none.
ReadCsv(file) ==
    [i \in 1..Len(file.rows) |->
        [idx |-> i - 1, uid |-> file.rows[i].uid, ath_id |-> file.rows[i].ath_id,
         val |-> file.rows[i].val, hist |-> file.rows[i].hist,
         today |-> IF file.hasToday THEN file.rows[i].today ELSE NaN]]

\* to_csv(index=False) writes every column but the index.
ToCsv(frame) ==
    [exists |-> TRUE, hasToday |-> TRUE,
     rows |-> [i \in 1..Len(frame) |->
                 [uid |-> frame[i].uid, ath_id |-> frame[i].ath_id,
                  val |-> frame[i].val, hist |-> frame[i].hist,
                  today |-> frame[i].today]]]

\* ath_age.loc[ridx, today_str] = a
SetToday_Append(frame, ridx, a) ==
    Append(frame, [idx |-> Len(frame), uid |-> 0, ath_id |-> NaN, val |-> NaN,
                   hist |-> [d \in 1..HistLen |-> NaN], today |-> a])
SetToday_OnCopy(frame, ridx, a) == frame
SetToday(frame, ridx, a) ==
    [i \in 1..Len(frame) |->
        IF frame[i].idx = ridx THEN [frame[i] EXCEPT !.today = a] ELSE frame[i]]

RECURSIVE Merge(_, _)
Merge(frame, results) ==
    IF results = <<>> THEN frame
    ELSE LET r == Head(results)
         IN  Merge(IF r[2] = DELETED THEN frame ELSE SetToday(frame, r[1], r[2]),
                   Tail(results))

IdsToRemove(results) == {results[i][1] : i \in {j \in 1..Len(results) : results[j][2] = DELETED}}

ResetIndex_Keep(frame) == frame
ResetIndex(frame) == [i \in 1..Len(frame) |-> [frame[i] EXCEPT !.idx = i - 1]]

Drop(frame, ids) == SelectSeq(frame, LAMBDA r : r.idx \notin ids)

Purge_None(frame, results) == frame
RECURSIVE Purge_OneByOne(_, _)
Purge_OneByOne(frame, results) ==
    IF results = <<>> THEN frame
    ELSE Purge_OneByOne(IF Head(results)[2] = DELETED
                        THEN ResetIndex(Drop(frame, {Head(results)[1]}))
                        ELSE frame,
                        Tail(results))
Purge(frame, results) ==
    IF IdsToRemove(results) = {} THEN frame
    ELSE ResetIndex(Drop(frame, IdsToRemove(results)))

Uids(rows) == {rows[i].uid : i \in 1..Len(rows)}
UidAt(frame, ridx) == frame[ridx + 1].uid

(***************************************************************************)
(* The stores a run can start from                                         *)
(***************************************************************************)
Hist(v) == [d \in 1..HistLen |-> v]

\* reference value already equal to the history maximum
RowMatching(u) == [uid |-> u, ath_id |-> 100 + u, val |-> 34, hist |-> Hist(34), today |-> NaN]
\* reference value differs from the history
RowStale(u) == [uid |-> u, ath_id |-> 100 + u, val |-> 34, hist |-> Hist(30), today |-> NaN]
\* no ath_id, no history
RowNoId(u) == [uid |-> u, ath_id |-> NaN, val |-> 34, hist |-> Hist(NaN), today |-> NaN]
\* scraped earlier today by a previous run
RowScraped(u) == [uid |-> u, ath_id |-> 100 + u, val |-> 34, hist |-> Hist(30), today |-> 41]

NoFile == [exists |-> FALSE, hasToday |-> FALSE, rows |-> <<>>]

Files ==
    {NoFile}
    \cup {[exists |-> TRUE, hasToday |-> FALSE,
           rows |-> [i \in DOMAIN k |-> IF k[i] = 1 THEN RowMatching(i)
                                    ELSE IF k[i] = 2 THEN RowStale(i) ELSE RowNoId(i)]] :
            k \in UNION {[1..m -> 1..3] : m \in 1..MaxRows}}
    \cup {[exists |-> TRUE, hasToday |-> TRUE,
           rows |-> [i \in DOMAIN k |-> IF k[i] = 1 THEN RowMatching(i)
                                    ELSE IF k[i] = 2 THEN RowStale(i)
                                    ELSE IF k[i] = 3 THEN RowNoId(i) ELSE RowScraped(i)]] :
            k \in UNION {[1..m -> 1..4] : m \in 1..MaxRows}}

NoCall == [ret |-> NaN, fetched |-> {}, extracted |-> {}, raised |-> FALSE]

(***************************************************************************)
(* run_scraping_cycle                                                      *)
(***************************************************************************)
Init ==
    /\ disk \in Files
    /\ disk0 = disk
    /\ n_workers \in 0..MaxWorkers
    /\ pc = "load"
    /\ error = "none"
    /\ ath_age = <<>>
    /\ cycle = 1
    /\ idx_list = <<>>
    /\ chunks = <<>>
    /\ wstatus = <<>>
    /\ wresults = <<>>
    /\ collected = {}
    /\ cycle_results = <<>>
    /\ dispatched = 0
    /\ saves = 0
    /\ deletedSeen = {}
    /\ fetches = <<>>
    /\ tries = <<>>
    /\ max_tries = 0
    /\ age = NoCall

retryVars == <<tries, max_tries, age>>
workVars == <<chunks, wstatus, wresults, collected, cycle_results>>

Load_Create ==
    /\ pc = "load"
    /\ ath_age' = IF disk.exists THEN ReadCsv(disk) ELSE <<>>
    /\ disk' = IF disk.exists THEN disk ELSE ToCsv(<<>>)
    /\ pc' = "cycle"
    /\ UNCHANGED <<disk0, n_workers, error, cycle, idx_list, workVars,
                   dispatched, saves, deletedSeen, fetches, retryVars>>

\* read_csv; FileNotFoundError ends the run; the today column is ensured.
Load ==
    /\ pc = "load"
    /\ IF disk.exists
       THEN /\ ath_age' = ReadCsv(disk)
            /\ pc' = "cycle"
            /\ error' = error
       ELSE /\ pc' = "done"
            /\ error' = "FileNotFoundError"
            /\ ath_age' = ath_age
    /\ UNCHANGED <<disk, disk0, n_workers, cycle, idx_list, workVars,
                   dispatched, saves, deletedSeen, fetches, retryVars>>

BeginCycle_SaveOnBreak ==
    /\ pc = "cycle"
    /\ idx_list' = Backlog(ath_age)
    /\ IF idx_list' = <<>>
       THEN /\ pc' = "done"
            /\ disk' = ToCsv(ath_age)
            /\ UNCHANGED <<error, workVars, dispatched>>
       ELSE /\ chunks' = Chunks(idx_list', n_workers)
            /\ cycle_results' = <<>>
            /\ collected' = {}
            /\ disk' = disk
            /\ IF n_workers <= 0
               THEN /\ pc' = "raised"
                    /\ error' = "ValueError"
                    /\ UNCHANGED <<wstatus, wresults, dispatched>>
               ELSE /\ pc' = "collect"
                    /\ error' = error
                    /\ wstatus' = [c \in 1..Len(chunks') |-> "submitted"]
                    /\ wresults' = [c \in 1..Len(chunks') |-> <<>>]
                    /\ dispatched' = dispatched + 1
    /\ UNCHANGED <<disk0, n_workers, ath_age, cycle, saves, deletedSeen,
                   fetches, retryVars>>

\* Top of the loop body: the backlog is computed, the loop is left when it is
\* empty, otherwise the chunks are built and submitted to the pool.
BeginCycle ==
    /\ pc = "cycle"
    /\ idx_list' = Backlog(ath_age)
    /\ IF idx_list' = <<>>
       THEN /\ pc' = "done"
            /\ UNCHANGED <<error, workVars, dispatched>>
       ELSE /\ chunks' = Chunks(idx_list', n_workers)
            /\ cycle_results' = <<>>
            /\ collected' = {}
            /\ IF n_workers <= 0
               THEN \* ProcessPoolExecutor(max_workers=n_workers) raises
                    /\ pc' = "raised"
                    /\ error' = "ValueError"
                    /\ UNCHANGED <<wstatus, wresults, dispatched>>
               ELSE /\ pc' = "collect"
                    /\ error' = error
                    /\ wstatus' = [c \in 1..Len(chunks') |-> "submitted"]
                    /\ wresults' = [c \in 1..Len(chunks') |-> <<>>]
                    /\ dispatched' = dispatched + 1
    /\ UNCHANGED <<disk, disk0, n_workers, ath_age, cycle, saves, deletedSeen,
                   fetches, retryVars>>

\* _process_chunk_age up to the loop: the browser session is created, or both
\* constructors raise and the exception leaves the worker.
WorkerSetup(c) ==
    /\ pc \in {"collect", "raised"}
    /\ c \in DOMAIN wstatus
    /\ wstatus[c] = "submitted"
    /\ \E ok \in BOOLEAN :
         wstatus' = [wstatus EXCEPT ![c] = IF ok THEN "running" ELSE "failed"]
    /\ UNCHANGED <<disk, disk0, n_workers, pc, error, ath_age, cycle, idx_list,
                   chunks, wresults, collected, cycle_results, dispatched,
                   saves, deletedSeen, fetches, retryVars>>

\* One iteration of the worker's loop; after the last one the driver quits
\* and the results are returned.
WorkerItem(c) ==
    /\ pc \in {"collect", "raised"}
    /\ c \in DOMAIN wstatus
    /\ wstatus[c] = "running"
    /\ LET ridx == chunks[c][Len(wresults[c]) + 1]
           ath_id_val == ath_age[ridx + 1].ath_id
       IN  \E call \in ItemCalls(ath_id_val) :
              /\ wresults' = [wresults EXCEPT ![c] = Append(@, <<ridx, call.ret>>)]
              /\ fetches' = [u \in DOMAIN fetches |->
                               IF u = UidAt(ath_age, ridx)
                               THEN fetches[u] + call.n ELSE fetches[u]]
              /\ wstatus' = [wstatus EXCEPT ![c] =
                               IF Len(wresults[c]) + 1 = Len(chunks[c])
                               THEN "returned" ELSE "running"]
    /\ UNCHANGED <<disk, disk0, n_workers, pc, error, ath_age, cycle, idx_list,
                   chunks, collected, cycle_results, dispatched, saves,
                   deletedSeen, retryVars>>

\* as_completed yields a finished future; fut.result() returns the worker's
\* list or re-raises the worker's exception.
Collect(c) ==
    /\ pc = "collect"
    /\ c \in 1..Len(chunks)
    /\ c \notin collected
    /\ wstatus[c] \in {"returned", "failed"}
    /\ collected' = collected \cup {c}
    /\ IF wstatus[c] = "returned"
       THEN /\ cycle_results' = cycle_results \o wresults[c]
            /\ deletedSeen' = deletedSeen \cup
                 {[uid |-> UidAt(ath_age, wresults[c][i][1]), cycle |-> cycle] :
                    i \in {j \in 1..Len(wresults[c]) : wresults[c][j][2] = DELETED}}
            /\ UNCHANGED <<pc, error>>
       ELSE /\ pc' = "raised"
            /\ error' = "WorkerError"
            /\ UNCHANGED <<cycle_results, deletedSeen>>
    /\ UNCHANGED <<disk, disk0, n_workers, ath_age, cycle, idx_list, chunks,
                   wstatus, wresults, dispatched, saves, fetches, retryVars>>

ProcessResults_SaveAtExit ==
    /\ pc = "collect"
    /\ collected = 1..Len(chunks)
    /\ ath_age' = Purge(Merge(ath_age, cycle_results), cycle_results)
    /\ disk' = IF cycle < LastCycle THEN disk ELSE ToCsv(ath_age')
    /\ saves' = IF cycle < LastCycle THEN saves ELSE saves + 1
    /\ IF cycle < LastCycle
       THEN /\ cycle' = cycle + 1
            /\ pc' = "cycle"
       ELSE /\ cycle' = cycle
            /\ pc' = "done"
    /\ UNCHANGED <<disk0, n_workers, error, idx_list, workVars, dispatched,
                   deletedSeen, fetches, retryVars>>

\* After the pool: merge the outcomes, drop the deleted rows, save, and go to
\* the next iteration of the loop.
ProcessResults ==
    /\ pc = "collect"
    /\ collected = 1..Len(chunks)
    /\ ath_age' = Purge(Merge(ath_age, cycle_results), cycle_results)
    /\ disk' = ToCsv(ath_age')
    /\ saves' = saves + 1
    /\ IF cycle < LastCycle
       THEN /\ cycle' = cycle + 1
            /\ pc' = "cycle"
       ELSE /\ cycle' = cycle
            /\ pc' = "done"
    /\ UNCHANGED <<disk0, n_workers, error, idx_list, workVars, dispatched,
                   deletedSeen, fetches, retryVars>>

Next ==
    \/ Load
    \/ BeginCycle
    \/ \E c \in 1..MaxRows : WorkerSetup(c)
    \/ \E c \in 1..MaxRows : WorkerItem(c)
    \/ \E c \in 1..MaxRows : Collect(c)
    \/ ProcessResults

Spec == Init /\ [][Next]_vars

(***************************************************************************)
(* The same run, started from a shorter file not yet scraped today, with   *)
(* the fetches made for one of its rows counted                            *)
(***************************************************************************)
InitFetch ==
    /\ disk \in {f \in Files : f.exists /\ ~f.hasToday /\ Len(f.rows) < MaxRows}
    /\ disk0 = disk
    /\ n_workers \in 0..MaxWorkers
    /\ pc = "load"
    /\ error = "none"
    /\ ath_age = <<>>
    /\ cycle = 1
    /\ idx_list = <<>>
    /\ chunks = <<>>
    /\ wstatus = <<>>
    /\ wresults = <<>>
    /\ collected = {}
    /\ cycle_results = <<>>
    /\ dispatched = 0
    /\ saves = 0
    /\ deletedSeen = {}
    /\ fetches \in {[u \in {w} |-> 0] : w \in Uids(disk.rows)}
    /\ tries = <<>>
    /\ max_tries = 0
    /\ age = NoCall

SpecFetch == InitFetch /\ [][Next]_vars

(***************************************************************************)
(* get_age_with_retry on its own                                           *)
(***************************************************************************)
Idle ==
    /\ disk = NoFile
    /\ disk0 = NoFile
    /\ error = "none"
    /\ cycle = 1
    /\ wstatus = <<>>
    /\ wresults = <<>>
    /\ collected = {}
    /\ cycle_results = <<>>
    /\ dispatched = 0
    /\ saves = 0
    /\ deletedSeen = {}
    /\ fetches = <<>>

InitRetry ==
    /\ Idle
    /\ pc = "call"
    /\ tries \in [1..MaxTries -> TryResults]
    /\ max_tries \in 0..MaxTries
    /\ age = NoCall
    /\ n_workers = 1
    /\ ath_age = <<>>
    /\ idx_list = <<>>
    /\ chunks = <<>>

CallRetry ==
    /\ pc = "call"
    /\ age' = get_age_with_retry(tries, max_tries)
    /\ pc' = "returned"
    /\ UNCHANGED <<disk, disk0, n_workers, error, ath_age, cycle, idx_list,
                   workVars, dispatched, saves, deletedSeen, fetches,
                   tries, max_tries>>

NextRetry == CallRetry

SpecRetry == InitRetry /\ [][NextRetry]_vars

(***************************************************************************)
(* The chunking of a backlog on its own                                    *)
(***************************************************************************)
SetMin(S) == CHOOSE m \in S : \A x \in S : m <= x

RECURSIVE SortedSeq(_)
SortedSeq(S) == IF S = {} THEN <<>> ELSE <<SetMin(S)>> \o SortedSeq(S \ {SetMin(S)})

InitChunks ==
    /\ Idle
    /\ pc = "chunk"
    /\ idx_list \in {SortedSeq(S) : S \in (SUBSET (0..(MaxBacklog - 1))) \ {{}}}
    /\ n_workers \in (-1)..MaxChunkWorkers
    /\ chunks = <<>>
    /\ ath_age = <<>>
    /\ tries = <<>>
    /\ max_tries = 0
    /\ age = NoCall

BuildChunks ==
    /\ pc = "chunk"
    /\ chunks' = Chunks(idx_list, n_workers)
    /\ pc' = "chunked"
    /\ UNCHANGED <<disk, disk0, n_workers, error, ath_age, cycle, idx_list,
                   wstatus, wresults, collected, cycle_results, dispatched,
                   saves, deletedSeen, fetches, retryVars>>

NextChunks == BuildChunks

SpecChunks == InitChunks /\ [][NextChunks]_vars

(***************************************************************************)
(* The backlog filter on its own                                           *)
(***************************************************************************)
HistVals == {NaN, 30, 41}

FilterRows ==
    [uid : {0}, ath_id : {100}, val : {NaN, 41}, hist : [1..HistLen -> HistVals],
     today : {NaN, 41}]

InitBacklog ==
    /\ Idle
    /\ pc = "filter"
    /\ \E m \in 1..BacklogRows : \E rows \in [1..m -> FilterRows] :
         ath_age = ReadCsv([exists |-> TRUE, hasToday |-> TRUE,
                            rows |-> [i \in DOMAIN rows |-> [rows[i] EXCEPT !.uid = i]]])
    /\ idx_list = <<>>
    /\ n_workers = 1
    /\ chunks = <<>>
    /\ tries = <<>>
    /\ max_tries = 0
    /\ age = NoCall

ComputeBacklog ==
    /\ pc = "filter"
    /\ idx_list' = Backlog(ath_age)
    /\ pc' = "filtered"
    /\ UNCHANGED <<disk, disk0, n_workers, error, ath_age, cycle, workVars,
                   dispatched, saves, deletedSeen, fetches, retryVars>>

NextBacklog == ComputeBacklog

SpecBacklog == InitBacklog /\ [][NextBacklog]_vars

(***************************************************************************)
(* The merge of one found outcome on its own, applied twice                *)
(***************************************************************************)
InitMerge ==
    /\ disk \in {f \in Files : f.exists}
    /\ disk0 = disk
    /\ ath_age = ReadCsv(disk)
    /\ cycle_results \in {<<<<i, v>>>> : i \in 0..(Len(disk.rows) - 1), v \in {3, 41, 200}}
    /\ pc = "merge"
    /\ n_workers = 1
    /\ error = "none"
    /\ cycle = 1
    /\ idx_list = <<>>
    /\ chunks = <<>>
    /\ wstatus = <<>>
    /\ wresults = <<>>
    /\ collected = {}
    /\ dispatched = 0
    /\ saves = 0
    /\ deletedSeen = {}
    /\ fetches = <<>>
    /\ tries = <<>>
    /\ max_tries = 0
    /\ age = NoCall

\* The loop at lines 148-152 over cycle_results, once more each time.
ApplyMerge ==
    /\ pc \in {"merge", "merged"}
    /\ ath_age' = Merge(ath_age, cycle_results)
    /\ pc' = IF pc = "merge" THEN "merged" ELSE "merged_twice"
    /\ UNCHANGED <<disk, disk0, n_workers, error, cycle, idx_list, chunks,
                   wstatus, wresults, collected, cycle_results, dispatched,
                   saves, deletedSeen, fetches, retryVars>>

NextMerge == ApplyMerge

SpecMerge == InitMerge /\ [][NextMerge]_vars

(***************************************************************************)
(* Properties                                                              *)
(***************************************************************************)
InStore(u) == \E i \in DOMAIN ath_age : ath_age[i].uid = u
OnDisk(u) == \E i \in DOMAIN disk.rows : disk.rows[i].uid = u
TodaySet(u) == \E i \in DOMAIN ath_age : ath_age[i].uid = u /\ ath_age[i].today # NaN
ChunkUids == {UidAt(ath_age, chunks[c][j]) : <<c, j>> \in
                UNION {{<<c, j>> : j \in DOMAIN chunks[c]} : c \in DOMAIN chunks}}
InFlight == pc = "collect" \/ (pc = "raised" /\ error = "WorkerError")

\* C1: a run dispatches at most 5 cycles; at the first cycle whose freshly
\* computed backlog is empty the run stops without dispatching, and nothing
\* happens after the run has stopped.
C1_Termination ==
    /\ [](dispatched <= 5 /\ cycle <= 5)
    /\ [][(pc = "cycle" /\ \A i \in DOMAIN ath_age :
                ath_age[i].today # NaN \/ eq(ath_age[i].val, rowmax(ath_age[i])))
           => (pc' = "done" /\ dispatched' = dispatched /\ disk' = disk)]_vars
    /\ [][pc = "cycle" => (dispatched' = dispatched \/ dispatched' = cycle)]_vars
    /\ [][pc # "done"]_vars

\* C1 witness: a run that stopped at its third cycle on an empty backlog.
C1_Witness ==
    pc = "done" /\ error = "none" /\ dispatched = 2 /\ cycle = 3 /\ idx_list = <<>>

\* C2: an entity whose outcome is Deleted in cycle k is out of the store in
\* memory and on disk once cycle k is over, and is in no chunk of a later cycle.
C2_DeletedPermanent ==
    \A d \in deletedSeen :
        /\ (cycle > d.cycle \/ pc \in {"done", "raised"})
              => (~InStore(d.uid) /\ ~OnDisk(d.uid))
        /\ (cycle > d.cycle /\ pc = "collect") => d.uid \notin ChunkUids

\* C3: a worker that fails does not abort the run.
C3_FailureIsolated ==
    (\E c \in DOMAIN wstatus : wstatus[c] = "failed") => error # "WorkerError"

\* C4: the file holds the store as it was at the end of the last completed
\* cycle (the store in memory changes only at the end of a cycle), one save
\* per completed cycle; before the first cycle completes it is the file as
\* loaded.
C4_Checkpoint ==
    LET completed == IF InFlight THEN dispatched - 1 ELSE dispatched
    IN  /\ saves = completed
        /\ completed = 0 => disk = disk0
        /\ completed > 0 =>
              /\ disk.exists /\ disk.hasToday
              /\ Len(disk.rows) = Len(ath_age)
              /\ \A i \in DOMAIN ath_age :
                    /\ disk.rows[i].uid = ath_age[i].uid
                    /\ disk.rows[i].ath_id = ath_age[i].ath_id
                    /\ disk.rows[i].val = ath_age[i].val
                    /\ disk.rows[i].hist = ath_age[i].hist
                    /\ disk.rows[i].today = ath_age[i].today

\* C4 witness: the second cycle is in flight with worker results not yet
\* merged, and the first cycle's checkpoint changed the file.
C4_Witness ==
    /\ pc = "collect" /\ cycle = 2 /\ saves = 1 /\ disk # disk0
    /\ \E c \in DOMAIN wresults : wresults[c] # <<>>

\* C5: once an entity's value for today is set, or the entity is purged, it
\* stays so, and no backlog computed later holds it.
Settled(u) == pc # "load" /\ (~InStore(u) \/ TodaySet(u))

C5_BacklogExclusion ==
    [][\A u \in Uids(disk0.rows) :
          Settled(u) =>
            /\ Settled(u)'
            /\ pc = "cycle" =>
                 u \notin {UidAt(ath_age', idx_list'[i]) : i \in DOMAIN idx_list'}]_vars

\* C5 witness: a later cycle is dispatched for a non-empty backlog while one
\* entity was given today's value and another was purged in this run.
C5_Witness ==
    /\ pc = "collect" /\ cycle >= 2 /\ idx_list # <<>>
    /\ \E i \in DOMAIN disk0.rows :
          ~disk0.hasToday /\ TodaySet(disk0.rows[i].uid)
    /\ \E i \in DOMAIN disk0.rows : ~InStore(disk0.rows[i].uid)

\* The non-absent values of a row's date columns, and the rows of the frame
\* a predicate selects, as the list of their index labels in frame order.
Observed(row) == {row.hist[d] : d \in DOMAIN row.hist} \ {NaN}
MostRecent(row) ==
    IF Observed(row) = {} THEN NaN
    ELSE row.hist[CHOOSE d \in DOMAIN row.hist :
                     /\ row.hist[d] # NaN
                     /\ \A d2 \in DOMAIN row.hist : d2 > d => row.hist[d2] = NaN]
Largest(row) ==
    IF Observed(row) = {} THEN NaN
    ELSE CHOOSE m \in Observed(row) : \A x \in Observed(row) : x <= m
Differs(a, b) == a = NaN \/ b = NaN \/ a # b

IsBacklogOf(list, Ref(_)) ==
    /\ \A i \in DOMAIN ath_age :
          (\E j \in DOMAIN list : list[j] = ath_age[i].idx)
             <=> (ath_age[i].today = NaN /\ Differs(ath_age[i].val, Ref(ath_age[i])))
    /\ \A j \in DOMAIN list : \E i \in DOMAIN ath_age : list[j] = ath_age[i].idx
    /\ \A j, k \in DOMAIN list : j < k => list[j] < list[k]

\* C6 as stated: the backlog is the rows whose value for today is absent and
\* whose most recent non-absent observed value differs from the reference value.
C6_BacklogMostRecent == pc = "filtered" => IsBacklogOf(idx_list, MostRecent)

\* C6 amended: the backlog is the rows whose value for today is absent and
\* whose largest non-absent observed value differs from the reference value
\* (a row with no observed value or no reference value differs).
C6_BacklogLargest == pc = "filtered" => IsBacklogOf(idx_list, Largest)

\* C6 witness: a row whose history went down (41 then 30) and whose reference
\* value 41 equals the largest but not the latest value is left out.
C6_Witness ==
    /\ pc = "filtered"
    /\ \E i \in DOMAIN ath_age :
          /\ ath_age[i].val = 41 /\ ath_age[i].today = NaN
          /\ ath_age[i].hist[1] = 41 /\ ath_age[i].hist[HistLen] = 30
          /\ \A j \in DOMAIN idx_list : idx_list[j] # ath_age[i].idx
    /\ idx_list # <<>>

ChunkPlaces == UNION {{<<c, j>> : j \in DOMAIN chunks[c]} : c \in DOMAIN chunks}
ChunkLens == {Len(chunks[c]) : c \in DOMAIN chunks}

RECURSIVE Flat(_)
Flat(ss) == IF ss = <<>> THEN <<>> ELSE Head(ss) \o Flat(Tail(ss))

\* C7: for a backlog of N >= 1 indices and W >= 1 workers every backlog index
\* is at exactly one place of exactly one chunk and the chunks hold nothing else.
C7_ChunksCoverOnce ==
    (pc = "chunked" /\ n_workers >= 1) =>
        /\ \A i \in DOMAIN idx_list :
              Cardinality({pl \in ChunkPlaces : chunks[pl[1]][pl[2]] = idx_list[i]}) = 1
        /\ \A pl \in ChunkPlaces :
              \E i \in DOMAIN idx_list : idx_list[i] = chunks[pl[1]][pl[2]]

\* C7 witness: seven indices are split over three chunks.
C7_Witness ==
    pc = "chunked" /\ n_workers = 3 /\ Len(idx_list) = 7 /\ Len(chunks) = 3

\* C8 as stated: the chunks are contiguous, at most W of them, and the largest
\* is at most one longer than the smallest.
C8_NearEqual ==
    (pc = "chunked" /\ n_workers >= 1) =>
        /\ Flat(chunks) = idx_list
        /\ Len(chunks) <= n_workers
        /\ \A a, b \in ChunkLens : a - b <= 1

\* C8 amended: the chunks are contiguous, at most max(1, W) of them, none is
\* empty, every chunk but the last has ceil(N / max(1, W)) indices and the last
\* has at most that many.
C8_CeilChunks ==
    pc = "chunked" =>
        LET w == IF n_workers >= 1 THEN n_workers ELSE 1
            size == CHOOSE k \in 1..Len(idx_list) :
                       k * w >= Len(idx_list) /\ (k - 1) * w < Len(idx_list)
        IN  /\ Flat(chunks) = idx_list
            /\ Len(chunks) >= 1 /\ Len(chunks) <= w
            /\ \A c \in DOMAIN chunks :
                  /\ c < Len(chunks) => Len(chunks[c]) = size
                  /\ Len(chunks[c]) >= 1 /\ Len(chunks[c]) <= size

\* C8 witness: seven indices and three workers give chunks of 3, 3 and 1.
C8_Witness ==
    /\ pc = "chunked" /\ n_workers = 3 /\ Len(idx_list) = 7
    /\ Len(chunks) = 3 /\ Len(chunks[1]) = 3 /\ Len(chunks[3]) = 1

\* The tries of a call that find a valid age, and those that meet the toast.
ValidTries == {i \in 1..max_tries : tries[i].k = "page" /\ tries[i].v >= 3 /\ tries[i].v <= 200}
ToastTries == {i \in 1..max_tries : tries[i].k = "toast"}
First(S) == CHOOSE m \in S : \A x \in S : m <= x
Before(S, T) == S # {} /\ (T = {} \/ First(S) < First(T))

\* C9: at most max_tries fetches; with no toast met, the first valid try's
\* value is returned and no later try is made, NaN is returned after
\* max_tries failed tries, and no exception leaves the call.
C9_RetryBudget ==
    pc = "returned" =>
        /\ age.fetched \subseteq 1..max_tries
        /\ ~age.raised
        /\ Before(ValidTries, ToastTries) =>
              /\ age.ret = tries[First(ValidTries)].v
              /\ age.fetched = 1..First(ValidTries)
        /\ (ValidTries = {} /\ ToastTries = {}) =>
              /\ age.ret = NaN
              /\ age.fetched = 1..max_tries

\* C9 witness: two failed tries (a fetch error, an extraction error) and a
\* valid value on the third try of three.
C9_Witness ==
    /\ pc = "returned" /\ max_tries = 3
    /\ tries[1].k = "get_error" /\ tries[2].k = "extract_error"
    /\ tries[3] = Page(41) /\ age.ret = 41 /\ age.fetched = {1, 2, 3}

\* C10: when a try meets the deleted indicator (no earlier try having found a
\* valid value) the call returns DELETED on that try, whatever max_tries is:
\* no later try fetches and extract_first is not called on that try.
C10_DeletedShortCircuit ==
    (pc = "returned" /\ Before(ToastTries, ValidTries)) =>
        /\ age.ret = DELETED
        /\ age.fetched = 1..First(ToastTries)
        /\ First(ToastTries) \notin age.extracted
        /\ tries[1].k = "toast" => (age.fetched = {1} /\ age.extracted = {})

\* C10 witness: the indicator is met on the first of three tries whose later
\* tries would have found a valid value.
C10_Witness ==
    /\ pc = "returned" /\ max_tries = 3 /\ tries[1].k = "toast"
    /\ tries[2] = Page(41) /\ age.ret = DELETED /\ age.fetched = {1}

InRange(v) == v >= 3 /\ v <= 200

\* C11: every value in today's column, in memory and in the saved file, is
\* absent or an integer in [3, 200], and so is every value a worker returns
\* for the merge (besides the deleted mark): no other extracted value is stored.
C11_RangeEnforced ==
    /\ \A i \in DOMAIN ath_age : ath_age[i].today = NaN \/ InRange(ath_age[i].today)
    /\ \A i \in DOMAIN disk.rows : disk.rows[i].today = NaN \/ InRange(disk.rows[i].today)
    /\ \A c \in DOMAIN wresults : \A j \in DOMAIN wresults[c] :
          wresults[c][j][2] \in {NaN, DELETED} \/ InRange(wresults[c][j][2])
    /\ \A j \in DOMAIN cycle_results :
          cycle_results[j][2] \in {NaN, DELETED} \/ InRange(cycle_results[j][2])

\* C11 witness: the merge wrote 41 into the today column of a file that had
\* none, and the file was saved with it.
C11_Witness ==
    /\ ~disk0.hasToday /\ disk.hasToday
    /\ \E i \in DOMAIN disk.rows : disk.rows[i].today = 41
    /\ \E i \in DOMAIN disk.rows : disk.rows[i].today = NaN

\* C12: a run with n_workers <= 0 is not ended by an error of the pool.
C12_WorkersClamped == n_workers <= 0 => error # "ValueError"

\* C13: the store changes during a cycle only once every chunk's result is
\* collected, and the store after the merge and the purge is the one the
\* workers' results give in submission order, whatever order they completed in.
C13_OrderIndependent ==
    [][(pc = "collect" /\ (ath_age' # ath_age \/ disk' # disk)) =>
          /\ collected = DOMAIN chunks
          /\ \A c \in DOMAIN chunks : wstatus[c] = "returned"
          /\ ath_age' = Purge(Merge(ath_age, Flat(wresults)), Flat(wresults))
          /\ disk' = ToCsv(ath_age')]_vars

\* C13 witness: the chunks completed in another order than submitted, with a
\* deleted and a found outcome among them, and the cycle's merge follows.
C13_Witness ==
    /\ pc = "collect" /\ collected = DOMAIN chunks /\ Len(chunks) >= 2
    /\ cycle_results # Flat(wresults)
    /\ \E j \in DOMAIN cycle_results : cycle_results[j][2] = DELETED
    /\ \E j \in DOMAIN cycle_results : cycle_results[j][2] = 41

Observed0(u) == disk0.rows[CHOOSE i \in DOMAIN disk0.rows : disk0.rows[i].uid = u]

\* C14: a record with no ath_id gets the outcome NaN with no fetch made for
\* it, and the worker goes on: a worker that returned has one result for
\* every index of its chunk, in the chunk's order.
C14_NoIdSkipsFetch ==
    /\ \A u \in DOMAIN fetches : Observed0(u).ath_id = NaN => fetches[u] = 0
    /\ pc \in {"collect", "raised"} =>
          \A c \in DOMAIN wresults :
              /\ Len(wresults[c]) <= Len(chunks[c])
              /\ wstatus[c] = "returned" <=> Len(wresults[c]) = Len(chunks[c])
              /\ \A j \in DOMAIN wresults[c] :
                    /\ wresults[c][j][1] = chunks[c][j]
                    /\ ath_age[chunks[c][j] + 1].ath_id = NaN => wresults[c][j][2] = NaN

\* C14 witness: a worker returned from a chunk whose first record has no
\* ath_id and whose second record was fetched and found.
C14_Witness ==
    /\ pc = "collect"
    /\ \E c \in DOMAIN wresults :
          /\ wstatus[c] = "returned" /\ Len(chunks[c]) = 2
          /\ ath_age[chunks[c][1] + 1].ath_id = NaN
          /\ ath_age[chunks[c][1] + 1].uid \in DOMAIN fetches
          /\ wresults[c][1][2] = NaN /\ wresults[c][2][2] = 41

\* C15: when the file does not exist the run ends at the load: no cycle is
\* dispatched, no worker runs, nothing is saved and no file is created.
C15_MissingFile ==
    ~disk0.exists =>
        /\ disk = disk0 /\ saves = 0 /\ dispatched = 0
        /\ chunks = <<>> /\ wstatus = <<>> /\ wresults = <<>> /\ ath_age = <<>>
        /\ pc \in {"load", "done"}
        /\ pc = "done" => error = "FileNotFoundError"

\* C15 witness: the run has ended on the missing file.
C15_Witness == pc = "done" /\ ~disk0.exists /\ error = "FileNotFoundError"

ScenarioRows == <<RowMatching(1), RowStale(2), RowStale(3)>>
ScenarioResults == {<<1, DELETED>>, <<2, 41>>}
ResultSet == {cycle_results[j] : j \in DOMAIN cycle_results}

\* C16: three rows, row 0 matching, row 1 Deleted and row 2 Found(41) in
\* cycle 1: the first backlog is rows 1 and 2; after cycle 1 the store in
\* memory and on disk is row 0 and the former row 2 with 41 for today, and
\* cycle 2 finds an empty backlog and ends the run with nothing dispatched.
C16_Scenario ==
    (disk0.exists /\ disk0.rows = ScenarioRows) =>
        /\ (cycle = 1 /\ pc \in {"collect", "raised"}) => idx_list = <<1, 2>>
        /\ (/\ cycle = 2
            /\ [uid |-> 2, cycle |-> 1] \in deletedSeen
            /\ \E i \in DOMAIN ath_age : ath_age[i].uid = 3 /\ ath_age[i].today = 41) =>
              /\ ResultSet = ScenarioResults
              /\ ath_age = <<[idx |-> 0, uid |-> 1, ath_id |-> 101, val |-> 34,
                              hist |-> Hist(34), today |-> NaN],
                             [idx |-> 1, uid |-> 3, ath_id |-> 103, val |-> 34,
                              hist |-> Hist(30), today |-> 41]>>
              /\ disk = [exists |-> TRUE, hasToday |-> TRUE,
                         rows |-> <<RowMatching(1), [RowStale(3) EXCEPT !.today = 41]>>]
              /\ saves = 1 /\ dispatched = 1
              /\ pc \in {"cycle", "done"}
              /\ pc = "done" => (idx_list = <<>> /\ error = "none")

\* C16 witness: the scenario's run has stopped at cycle 2.
C16_Witness ==
    /\ disk0.exists /\ disk0.rows = ScenarioRows
    /\ cycle = 2 /\ ResultSet = ScenarioResults /\ pc = "done"
    /\ [uid |-> 2, cycle |-> 1] \in deletedSeen
    /\ \E i \in DOMAIN ath_age : ath_age[i].uid = 3 /\ ath_age[i].today = 41

\* C17: applying the same (index, Found(v)) outcome a second time leaves the
\* store as the first application left it.
C17_MergeIdempotent == [][pc = "merged" => ath_age' = ath_age]_vars

\* C17 witness: the outcome was applied twice and the first application had
\* changed the row's value for today.
C17_Witness ==
    /\ pc = "merged_twice"
    /\ ath_age[cycle_results[1][1] + 1].today = cycle_results[1][2]
    /\ disk0.rows[cycle_results[1][1] + 1].today # cycle_results[1][2]

DeletedUids == {UidAt(ath_age, cycle_results[j][1]) :
                  j \in {k \in DOMAIN cycle_results : cycle_results[k][2] = DELETED}}
Survivors == SelectSeq(ath_age, LAMBDA r : r.uid \notin DeletedUids)
OutcomeOf(u) ==
    {cycle_results[j][2] : j \in {k \in DOMAIN cycle_results :
                                    UidAt(ath_age, cycle_results[k][1]) = u}}

\* C18: the index labels are always 0..n-1 in row order, and the end of a
\* cycle removes exactly the rows whose outcome was Deleted: the other rows
\* stay in order with their uid, ath_id, reference value and history, and
\* with the outcome fetched for them (or their old value) for today.
C18_PurgeFrame ==
    /\ [](\A i \in DOMAIN ath_age : ath_age[i].idx = i - 1)
    /\ [][saves' = saves + 1 =>
            /\ Len(ath_age') = Len(Survivors)
            /\ \A i \in DOMAIN Survivors :
                  /\ ath_age'[i].uid = Survivors[i].uid
                  /\ ath_age'[i].ath_id = Survivors[i].ath_id
                  /\ ath_age'[i].val = Survivors[i].val
                  /\ ath_age'[i].hist = Survivors[i].hist
                  /\ ath_age'[i].idx = i - 1
                  /\ IF OutcomeOf(Survivors[i].uid) = {}
                     THEN ath_age'[i].today = Survivors[i].today
                     ELSE OutcomeOf(Survivors[i].uid) = {ath_age'[i].today}]_vars

\* C18 witness: a later cycle is dispatched after a purge that removed the
\* first row and kept a row that was found in the same cycle.
C18_Witness ==
    /\ pc = "collect" /\ cycle = 2 /\ ~disk0.hasToday
    /\ Len(ath_age) = Len(disk0.rows) - 1 /\ ath_age[1].uid = 2
    /\ \E i \in DOMAIN ath_age : ath_age[i].today = 41

\* C19: no index is in two chunks of a cycle; an observed entity is fetched
\* at most 3 times per dispatched cycle and 15 times per run; it is fetched
\* only while it is in the store with no value for today and was never
\* reported deleted; a value for today is never taken back; and after a
\* cycle before the fifth, the backlog of the frame the next cycle starts
\* from holds every entity the cycle left unresolved and none it found or
\* reported deleted.
C19_FetchBudget ==
    /\ [](\A u \in DOMAIN fetches : fetches[u] <= 3 * dispatched /\ fetches[u] <= 15)
    /\ [](pc = "collect" =>
            \A p1, p2 \in ChunkPlaces :
               chunks[p1[1]][p1[2]] = chunks[p2[1]][p2[2]] => p1 = p2)
    /\ [][\A u \in DOMAIN fetches :
            /\ fetches'[u] <= fetches[u] + 3
            /\ fetches'[u] # fetches[u] =>
                  /\ \E i \in DOMAIN ath_age : ath_age[i].uid = u /\ ath_age[i].today = NaN
                  /\ \A d \in deletedSeen : d.uid # u]_vars
    /\ [][(saves' = saves + 1 /\ cycle < 5) =>
            /\ pc' = "cycle" /\ cycle' = cycle + 1
            /\ \A j \in DOMAIN cycle_results :
                  cycle_results[j][2] = NaN =>
                     \E i \in DOMAIN ath_age' :
                        /\ ath_age'[i].uid = UidAt(ath_age, cycle_results[j][1])
                        /\ \E k \in DOMAIN Backlog(ath_age') :
                              Backlog(ath_age')[k] = ath_age'[i].idx
            /\ \A j \in DOMAIN cycle_results :
                  cycle_results[j][2] # NaN =>
                     \A i \in DOMAIN ath_age' :
                        ath_age'[i].uid = UidAt(ath_age, cycle_results[j][1]) =>
                           \A k \in DOMAIN Backlog(ath_age') :
                              Backlog(ath_age')[k] # ath_age'[i].idx]_vars
    /\ [][\A i \in DOMAIN ath_age : \A i2 \in DOMAIN ath_age' :
            (ath_age'[i2].uid = ath_age[i].uid /\ ath_age[i].today # NaN) =>
               ath_age'[i2].today # NaN]_vars

\* C19 witness: an entity was fetched 15 times in a run of five cycles.
C19_Witness ==
    pc = "done" /\ dispatched = 5 /\ \E u \in DOMAIN fetches : fetches[u] = 15

\* C20: a run whose first backlog is empty ends without saving: the file is
\* as it was loaded, without the today column created in memory.
C20_NoSaveOnEmpty ==
    (pc = "done" /\ dispatched = 0 /\ disk0.exists) =>
        /\ disk = disk0 /\ saves = 0
        /\ ~disk0.hasToday => ~disk.hasToday

\* C20 witness: such a run has ended on a file that had no today column.
C20_Witness ==
    /\ pc = "done" /\ dispatched = 0 /\ disk0.exists /\ ~disk.hasToday
    /\ ath_age # <<>> /\ idx_list = <<>>
====
